---- MODULE Spec2Model ----
(***************************************************************************)
(* Model of nc_lab4_functions.py: the SmartRaster and SmartVectorLayer     *)
(* wrappers around the GIS toolkit.  The feature table, the raster and the *)
(* scratch table "in_memory\temp_zonal_stats" are the state; every public  *)
(* method is one action.  A toolkit call that raises is an input of the    *)
(* call (the set `fault` of call sites that raise when reached).           *)
(***************************************************************************)
EXTENDS Integers, Sequences, FiniteSets, TLC

VARIABLES fields, rows, temp, last, pc

vars == <<fields, rows, temp, last, pc>>

(* ------------------------------ bounds --------------------------------- *)

\* most features of a feature table in the general specification
MaxRows == 2

\* most features of a feature table in the field-summary specification
MaxMeanRows == 5

(* ------------------------------ values --------------------------------- *)

\* Python None / a database null
None == [kind |-> "None", n |-> 0]

\* float("nan")
NaN == [kind |-> "nan", n |-> 0]

\* a geometry value (what a cursor yields for the Shape field)
Geom == [kind |-> "geometry", n |-> 0]

Num(i) == [kind |-> "num", n |-> i]

\* the float num/den, kept exact
Float(num, den) == [kind |-> "float", n |-> num, den |-> den]

\* a value of no kind at all: the slot of a result that was never produced
Nothing == [kind |-> "nothing", n |-> 0]

RECURSIVE SumSeq(_)
SumSeq(s) == IF s = <<>> THEN 0 ELSE Head(s) + SumSeq(Tail(s))

RECURSIVE SelectIdx(_, _, _)
\* the indices i of 1..n, ascending from `i`, for which Keep[i]
SelectIdx(Keep, i, n) ==
    IF i > n THEN <<>>
    ELSE IF Keep[i] THEN <<i>> \o SelectIdx(Keep, i + 1, n)
    ELSE SelectIdx(Keep, i + 1, n)

(* --------------------------- the feature table ------------------------- *)

NameSet(fs) == {fs[i].name : i \in 1..Len(fs)}

\* arcpy.ListFields(...) filtered by `f.type not in ('Geometry', 'OID')`
TrueFields(fs) ==
    LET keep == [i \in 1..Len(fs) |-> fs[i].type \notin {"Geometry", "OID"}]
        idx == SelectIdx(keep, 1, Len(fs))
    IN [j \in 1..Len(idx) |-> fs[idx[j]].name]

SeqToSet(s) == {s[i] : i \in 1..Len(s)}

BaseFields ==
    << [name |-> "OBJECTID", type |-> "OID"],
       [name |-> "Shape", type |-> "Geometry"],
       [name |-> "pop", type |-> "Double"] >>

MkRow(oid, v) == [OBJECTID |-> Num(oid), Shape |-> Geom, pop |-> v]

\* object identifiers of a table of n features: 1..n, or 2..n+1 once the
\* first feature of a longer table was deleted
OidChoices(n) == {[i \in 1..n |-> i], [i \in 1..n |-> i + 1]}

NoTemp == [exists |-> FALSE, rows |-> <<>>]

(* ------------------------------ results -------------------------------- *)

\* what a call left behind: its arguments, the toolkit calls it reached in
\* order (steps), the one that raised (raisedAt), whether the exception
\* reached the caller (raised), the returned flag and value, and the state
\* the call started from (pre)
NoCall ==
    [op |-> "none", given |-> TRUE, arg |-> <<>>, raster |-> 0, fault |-> {},
     steps |-> <<>>, raisedAt |-> {}, raised |-> FALSE,
     flag |-> FALSE, value |-> Nothing, rowsRead |-> 0,
     computed |-> <<>>, zonal_results |-> <<>>, updated |-> 0,
     pre |-> [fields |-> <<>>, rows |-> <<>>, temp |-> NoTemp]]

(* --------------------- SmartVectorLayer.summarize_field ---------------- *)

SummarizeFaults == SUBSET {"ListFields", "SearchCursor"}

\* MeanFilter without the math.isnan test: a NaN is summed and counted
MeanFilterKeepsNaN(v) == v.kind # "None"

\* math.isnan raises TypeError on a value that is no number
IsNumber(v) == v.kind \in {"num", "nan"}

\* the condition of the comprehension of line 90
MeanFilter(v) == v.kind # "None" /\ v.kind # "nan"

\* lines 88-96: the cursor, the filter and the mean, in one try block
SummarizeRead(fs, rs, field, fault) ==
    IF field \notin NameSet(fs) \/ "SearchCursor" \in fault
    THEN [flag |-> FALSE, value |-> None, rowsRead |-> 0,
          raisedAt |-> {"SearchCursor"}]
    ELSE LET col == [i \in 1..Len(rs) |-> rs[i][field]]
             bad == {i \in 1..Len(col) : col[i].kind # "None" /\ ~IsNumber(col[i])}
             keep == [i \in 1..Len(col) |-> MeanFilter(col[i])]
             idx == SelectIdx(keep, 1, Len(col))
             vals == [j \in 1..Len(idx) |-> col[idx[j]].n]
         IN IF bad # {}
            THEN [flag |-> FALSE, value |-> None,
                  rowsRead |-> CHOOSE i \in bad : \A j \in bad : i <= j,
                  raisedAt |-> {"isnan"}]
            ELSE IF Len(vals) = 0
            THEN [flag |-> FALSE, value |-> None, rowsRead |-> Len(col),
                  raisedAt |-> {"ZeroDivision"}]
            ELSE [flag |-> TRUE, value |-> Float(SumSeq(vals), Len(vals)),
                  rowsRead |-> Len(col), raisedAt |-> {}]

\* lines 73-96
summarize_field(fs, rs, field, fault) ==
    IF "ListFields" \notin fault /\ field \notin NameSet(fs)
    THEN [flag |-> FALSE, value |-> None, rowsRead |-> 0,
          steps |-> <<"ListFields">>, raisedAt |-> {}]
    ELSE LET r == SummarizeRead(fs, rs, field, fault)
         IN [flag |-> r.flag, value |-> r.value, rowsRead |-> r.rowsRead,
             steps |-> <<"ListFields", "SearchCursor">>,
             raisedAt |-> r.raisedAt \cup (fault \cap {"ListFields"})]

Snapshot == [fields |-> fields, rows |-> rows, temp |-> temp]

SummarizeArgs == {"pop", "ZonalStat", "OBJECTID", "Shape", "bogus_field"}

SummarizeField ==
    /\ pc = "ready"
    /\ \E field \in SummarizeArgs, fault \in SummarizeFaults :
          LET r == summarize_field(fields, rows, field, fault)
          IN /\ pc' = "returned"
             /\ last' = [NoCall EXCEPT !.op = "summarize_field",
                            !.arg = <<field>>, !.fault = fault,
                            !.steps = r.steps, !.raisedAt = r.raisedAt,
                            !.flag = r.flag, !.value = r.value,
                            !.rowsRead = r.rowsRead, !.pre = Snapshot]
             /\ UNCHANGED <<fields, rows, temp>>

(* ------------------ SmartVectorLayer.extract_to_pandas_df -------------- *)

ExtractFaults == {{}, {"ListFields"}, {"SearchCursor"}}

\* pd.DataFrame(rows, columns=fields)
DataFrame(data, columns) ==
    [kind |-> "DataFrame", n |-> 0, columns |-> columns, data |-> data]

\* Disallowed that validates the first requested name only
DisallowedFirstOnly(user_fields, true_fields) ==
    IF user_fields[1] \in SeqToSet(true_fields) THEN <<>>
    ELSE <<user_fields[1]>>

\* line 192: the requested names that are no non-geometry, non-OID field
Disallowed(user_fields, true_fields) ==
    LET keep == [i \in 1..Len(user_fields) |->
                    user_fields[i] \notin SeqToSet(true_fields)]
        idx == SelectIdx(keep, 1, Len(user_fields))
    IN [j \in 1..Len(idx) |-> user_fields[idx[j]]]

\* lines 201-213: the cursor over `flds` and the table built from its rows
ExtractRows(fs, rs, flds, fault) ==
    IF "SearchCursor" \in fault \/ ~(SeqToSet(flds) \subseteq NameSet(fs))
    THEN [flag |-> FALSE, value |-> None, rowsRead |-> 0,
          raisedAt |-> {"SearchCursor"}]
    ELSE [flag |-> TRUE,
          value |-> DataFrame([i \in 1..Len(rs) |->
                                  [j \in 1..Len(flds) |-> rs[i][flds[j]]]],
                              flds),
          rowsRead |-> Len(rs), raisedAt |-> {}]

\* lines 175-213; `given` is FALSE for fields=None.  The field listing of
\* lines 184 and 189 is in no try block: when it raises, the call raises
extract_to_pandas_df(fs, rs, given, user_fields, fault) ==
    IF "ListFields" \in fault
    THEN [flag |-> FALSE, value |-> Nothing, rowsRead |-> 0, raised |-> TRUE,
          steps |-> <<"ListFields">>, raisedAt |-> {"ListFields"}]
    ELSE IF given /\ Len(Disallowed(user_fields, TrueFields(fs))) # 0
    THEN [flag |-> FALSE, value |-> None, rowsRead |-> 0, raised |-> FALSE,
          steps |-> <<"ListFields">>, raisedAt |-> {}]
    ELSE LET flds == IF given THEN user_fields ELSE TrueFields(fs)
             r == ExtractRows(fs, rs, flds, fault)
         IN [flag |-> r.flag, value |-> r.value, rowsRead |-> r.rowsRead,
             raised |-> FALSE, steps |-> <<"ListFields", "SearchCursor">>,
             raisedAt |-> r.raisedAt]

ExtractNames == {"pop", "ZonalStat", "OBJECTID", "Shape", "bogus_field"}

ExtractArgs ==
    [1..1 -> ExtractNames] \cup [1..2 -> ExtractNames]

ExtractToPandasDf ==
    /\ pc = "ready"
    /\ \E given \in BOOLEAN, fault \in ExtractFaults :
        \E user_fields \in (IF given THEN ExtractArgs ELSE {<<>>}) :
          LET r == extract_to_pandas_df(fields, rows, given, user_fields, fault)
          IN /\ pc' = "returned"
             /\ last' = [NoCall EXCEPT !.op = "extract_to_pandas_df",
                            !.given = given, !.arg = user_fields,
                            !.fault = fault, !.steps = r.steps,
                            !.raisedAt = r.raisedAt, !.raised = r.raised,
                            !.flag = r.flag, !.value = r.value,
                            !.rowsRead = r.rowsRead, !.pre = Snapshot]
             /\ UNCHANGED <<fields, rows, temp>>

(* ----------------------- SmartRaster.calculate_ndvi -------------------- *)

\* the raster behind the handle: four bands of three pixels; band 4 (NIR)
\* and band 3 (red) agree on the first pixel and are both 0 on the last
RasterBands == << <<1, 2, 0>>, <<2, 2, 0>>, <<3, 1, 0>>, <<3, 5, 0>> >>

NoData == [kind |-> "NoData", n |-> 0]

\* Divide(Float(nir - red), Float(nir + red)), cell by cell; a cell whose
\* denominator is 0 is NoData in the result
NdviCell(nir, red) ==
    IF nir + red = 0 THEN NoData ELSE Float(nir - red, nir + red)

NdviFaults == {{}, {"Raster"}, {"Arithmetic"}}

\* lines 34-58: every toolkit call is inside the one try block
calculate_ndvi(band4_index, band3_index, fault) ==
    IF "Raster" \in fault
       \/ band4_index \notin 1..Len(RasterBands)
       \/ band3_index \notin 1..Len(RasterBands)
    THEN [flag |-> FALSE, steps |-> <<"Raster">>, raisedAt |-> {"Raster"},
          value |-> [kind |-> "error", n |-> 0]]
    ELSE IF "Arithmetic" \in fault
    THEN [flag |-> FALSE, steps |-> <<"Raster", "Arithmetic">>,
          raisedAt |-> {"Arithmetic"},
          value |-> [kind |-> "error", n |-> 0]]
    ELSE LET nir == RasterBands[band4_index]
             red == RasterBands[band3_index]
         IN [flag |-> TRUE, steps |-> <<"Raster", "Arithmetic">>,
             raisedAt |-> {},
             value |-> [kind |-> "raster", n |-> 0,
                        cells |-> [i \in 1..Len(nir) |->
                                      NdviCell(nir[i], red[i])]]]

BandArgs == {3, 4, 5}

CalculateNdvi ==
    /\ pc = "ready"
    /\ \E band4_index \in BandArgs, band3_index \in BandArgs, fault \in NdviFaults :
          LET r == calculate_ndvi(band4_index, band3_index, fault)
          IN /\ pc' = "returned"
             /\ last' = [NoCall EXCEPT !.op = "calculate_ndvi",
                            !.arg = <<band4_index, band3_index>>,
                            !.fault = fault, !.steps = r.steps,
                            !.raisedAt = r.raisedAt, !.flag = r.flag,
                            !.value = r.value, !.pre = Snapshot]
             /\ UNCHANGED <<fields, rows, temp>>

(* ------------------ SmartVectorLayer.zonal_stats_to_field -------------- *)

\* the toolkit calls of the method, in the order the code reaches them
ZonalSites ==
    {"ListFields", "AddField", "Exists", "DeleteStale", "Zonal",
     "ReadCursor", "UpdateCursor", "DeleteTemp"}

ZonalFaults == {{}} \cup {{s} : s \in ZonalSites}

\* the statistic of the zone of feature `oid` over raster `raster`
ZoneStat(raster, oid) == Num(10 * raster + oid)

\* what ZonalStatisticsAsTable writes for the zones in `cover` (the features
\* that overlap the raster): one row per zone, keyed by OBJECTID_1
ZonalTable(rs, raster, cover) ==
    LET keep == [i \in 1..Len(rs) |-> rs[i].OBJECTID.n \in cover]
        idx == SelectIdx(keep, 1, Len(rs))
    IN [j \in 1..Len(idx) |->
           [OBJECTID_1 |-> rs[idx[j]].OBJECTID.n,
            stat |-> ZoneStat(raster, rs[idx[j]].OBJECTID.n)]]

\* Step1AddField that gives up (okay = False) when the field exists
Step1AddFieldAborts(fs, rs, output_field, fault) ==
    IF "ListFields" \in fault
    THEN [fields |-> fs, rows |-> rs, exit |-> "return",
          steps |-> <<"ListFields">>, raisedAt |-> {"ListFields"}]
    ELSE IF output_field \in NameSet(fs)
    THEN [fields |-> fs, rows |-> rs, exit |-> "return",
          steps |-> <<"ListFields">>, raisedAt |-> {}]
    ELSE IF "AddField" \in fault
    THEN [fields |-> fs, rows |-> rs, exit |-> "return",
          steps |-> <<"ListFields", "AddField">>, raisedAt |-> {"AddField"}]
    ELSE [fields |-> Append(fs, [name |-> output_field, type |-> "Double"]),
          rows |-> [i \in 1..Len(rs) |-> (output_field :> None) @@ rs[i]],
          exit |-> "go",
          steps |-> <<"ListFields", "AddField">>, raisedAt |-> {}]

\* lines 106-116.  exit: "go" (fall through to the next step), "return"
\* (return okay = False) or "raise" (the exception reaches the caller)
Step1AddField(fs, rs, output_field, fault) ==
    IF "ListFields" \in fault
    THEN [fields |-> fs, rows |-> rs, exit |-> "return",
          steps |-> <<"ListFields">>, raisedAt |-> {"ListFields"}]
    ELSE IF output_field \in NameSet(fs)
    THEN [fields |-> fs, rows |-> rs, exit |-> "go",
          steps |-> <<"ListFields">>, raisedAt |-> {}]
    ELSE IF "AddField" \in fault
    THEN [fields |-> fs, rows |-> rs, exit |-> "return",
          steps |-> <<"ListFields", "AddField">>, raisedAt |-> {"AddField"}]
    ELSE [fields |-> Append(fs, [name |-> output_field, type |-> "Double"]),
          rows |-> [i \in 1..Len(rs) |-> (output_field :> None) @@ rs[i]],
          exit |-> "go",
          steps |-> <<"ListFields", "AddField">>, raisedAt |-> {}]

\* Step2Zonal without the stale-table deletion of lines 120-121: the tool
\* does not overwrite a table that is there, and the handler carries on
Step2ZonalKeepsStale(tmp, computed, fault) ==
    IF "Exists" \in fault
    THEN [temp |-> tmp, exit |-> "raise",
          steps |-> <<"Exists">>, raisedAt |-> {"Exists"}]
    ELSE IF "Zonal" \in fault
    THEN [temp |-> tmp, exit |-> "return",
          steps |-> <<"Exists", "Zonal">>, raisedAt |-> {"Zonal"}]
    ELSE [temp |-> IF tmp.exists THEN tmp
                   ELSE [exists |-> TRUE, rows |-> computed],
          exit |-> "go",
          steps |-> <<"Exists", "Zonal">>, raisedAt |-> {}]

\* lines 118-134: Exists and Delete are outside the try block
Step2Zonal(tmp, computed, fault) ==
    IF "Exists" \in fault
    THEN [temp |-> tmp, exit |-> "raise",
          steps |-> <<"Exists">>, raisedAt |-> {"Exists"}]
    ELSE IF tmp.exists /\ "DeleteStale" \in fault
    THEN [temp |-> tmp, exit |-> "raise",
          steps |-> <<"Exists", "DeleteStale">>, raisedAt |-> {"DeleteStale"}]
    ELSE LET del == IF tmp.exists THEN <<"Exists", "DeleteStale">>
                    ELSE <<"Exists">>
         IN IF "Zonal" \in fault
            THEN [temp |-> NoTemp, exit |-> "return",
                  steps |-> Append(del, "Zonal"), raisedAt |-> {"Zonal"}]
            ELSE [temp |-> [exists |-> TRUE, rows |-> computed],
                  exit |-> "go",
                  steps |-> Append(del, "Zonal"), raisedAt |-> {}]

RECURSIVE ReadDict(_, _)
\* lines 140-141: later rows of the cursor replace earlier ones
ReadDict(trows, d) ==
    IF trows = <<>> THEN d
    ELSE ReadDict(Tail(trows),
                  (Head(trows).OBJECTID_1 :> Head(trows).stat) @@ d)

\* Step3Read keyed by the scratch table's own row number (its OBJECTID)
\* instead of the zone identifier OBJECTID_1
Step3ReadByRowNumber(tmp, fault) ==
    IF "ReadCursor" \in fault \/ ~tmp.exists
    THEN [zonal_results |-> <<>>, exit |-> "return",
          steps |-> <<"ReadCursor">>, raisedAt |-> {"ReadCursor"}]
    ELSE [zonal_results |-> [j \in 1..Len(tmp.rows) |-> tmp.rows[j].stat],
          exit |-> "go",
          steps |-> <<"ReadCursor">>, raisedAt |-> {}]

\* lines 136-145; a cursor on a table that does not exist raises
Step3Read(tmp, fault) ==
    IF "ReadCursor" \in fault \/ ~tmp.exists
    THEN [zonal_results |-> <<>>, exit |-> "return",
          steps |-> <<"ReadCursor">>, raisedAt |-> {"ReadCursor"}]
    ELSE [zonal_results |-> ReadDict(tmp.rows, <<>>), exit |-> "go",
          steps |-> <<"ReadCursor">>, raisedAt |-> {}]

\* lines 150-154, one row of the update cursor
UpdateRow(row, output_field, zonal_results) ==
    IF row.OBJECTID.n \in DOMAIN zonal_results
    THEN [row EXCEPT ![output_field] = zonal_results[row.OBJECTID.n]]
    ELSE row

\* Step4Update that undoes the rows it wrote when the cursor raises
Step4UpdateRollsBack(rs, output_field, zonal_results, fault, done) ==
    LET upto == IF "UpdateCursor" \in fault THEN done ELSE Len(rs)
    IN [rows |-> [i \in 1..Len(rs) |->
                     IF "UpdateCursor" \notin fault
                     THEN UpdateRow(rs[i], output_field, zonal_results)
                     ELSE rs[i]],
        updated |-> upto,
        exit |-> IF "UpdateCursor" \in fault THEN "return" ELSE "go",
        steps |-> <<"UpdateCursor">>,
        raisedAt |-> fault \cap {"UpdateCursor"}]

\* lines 147-158; when the cursor raises, the first `done` rows were already
\* processed (and written) and stay as they are
Step4Update(rs, output_field, zonal_results, fault, done) ==
    LET upto == IF "UpdateCursor" \in fault THEN done ELSE Len(rs)
    IN [rows |-> [i \in 1..Len(rs) |->
                     IF i <= upto
                     THEN UpdateRow(rs[i], output_field, zonal_results)
                     ELSE rs[i]],
        updated |-> upto,
        exit |-> IF "UpdateCursor" \in fault THEN "return" ELSE "go",
        steps |-> <<"UpdateCursor">>,
        raisedAt |-> fault \cap {"UpdateCursor"}]

\* Step5CleanUp without the Delete of line 161
Step5CleanUpKeeps(tmp, fault) ==
    [temp |-> tmp, exit |-> "go", steps |-> <<>>, raisedAt |-> {}]

\* lines 160-164: Delete is outside any try block
Step5CleanUp(tmp, fault) ==
    IF "DeleteTemp" \in fault
    THEN [temp |-> tmp, exit |-> "raise",
          steps |-> <<"DeleteTemp">>, raisedAt |-> {"DeleteTemp"}]
    ELSE [temp |-> NoTemp, exit |-> "go",
          steps |-> <<"DeleteTemp">>, raisedAt |-> {}]

\* the method's result once a step has left it
ZonalExit(fs, rs, tmp, exit, steps, raisedAt, zonal_results, updated) ==
    [fields |-> fs, rows |-> rs, temp |-> tmp, updated |-> updated,
     flag |-> (exit = "go"), raised |-> (exit = "raise"),
     steps |-> steps, raisedAt |-> raisedAt, zonal_results |-> zonal_results]

\* lines 99-164
zonal_stats_to_field(fs, rs, tmp, output_field, computed, fault, done) ==
    LET s1 == Step1AddField(fs, rs, output_field, fault)
        s2 == Step2Zonal(tmp, computed, fault)
        s3 == Step3Read(s2.temp, fault)
        s4 == Step4Update(s1.rows, output_field, s3.zonal_results, fault, done)
        s5 == Step5CleanUp(s2.temp, fault)
        t2 == s1.steps \o s2.steps
        t3 == t2 \o s3.steps
        t4 == t3 \o s4.steps
    IN IF s1.exit # "go"
       THEN ZonalExit(s1.fields, s1.rows, tmp, s1.exit, s1.steps,
                      s1.raisedAt, <<>>, 0)
       ELSE IF s2.exit # "go"
       THEN ZonalExit(s1.fields, s1.rows, s2.temp, s2.exit, t2,
                      s2.raisedAt, <<>>, 0)
       ELSE IF s3.exit # "go"
       THEN ZonalExit(s1.fields, s1.rows, s2.temp, s3.exit, t3,
                      s3.raisedAt, <<>>, 0)
       ELSE IF s4.exit # "go"
       THEN ZonalExit(s1.fields, s4.rows, s2.temp, s4.exit, t4,
                      s4.raisedAt, s3.zonal_results, s4.updated)
       ELSE ZonalExit(s1.fields, s4.rows, s5.temp, s5.exit, t4 \o s5.steps,
                      s5.raisedAt, s3.zonal_results, s4.updated)

OutputFields == {"ZonalStat"}

Rasters == {1, 2}

Oids(rs) == {rs[i].OBJECTID.n : i \in 1..Len(rs)}

ZonalStatsToField ==
    /\ pc = "ready"
    /\ \E output_field \in OutputFields, raster \in Rasters,
         cover \in SUBSET Oids(rows), fault \in ZonalFaults :
        \E done \in (IF "UpdateCursor" \in fault THEN 0..Len(rows) ELSE {0}) :
          LET computed == ZonalTable(rows, raster, cover)
              r == zonal_stats_to_field(fields, rows, temp, output_field,
                                        computed, fault, done)
          IN /\ fields' = r.fields
             /\ rows' = r.rows
             /\ temp' = r.temp
             /\ last' = [NoCall EXCEPT !.op = "zonal_stats_to_field",
                            !.arg = <<output_field>>, !.raster = raster,
                            !.fault = fault, !.steps = r.steps,
                            !.raisedAt = r.raisedAt, !.raised = r.raised,
                            !.flag = r.flag, !.computed = computed,
                            !.zonal_results = r.zonal_results,
                            !.updated = r.updated,
                            !.pre = Snapshot]
             /\ pc' = "returned"

\* the caller takes the result (or the exception) and goes on
ReturnToCaller ==
    /\ pc = "returned"
    /\ pc' = "ready"
    /\ last' = NoCall
    /\ UNCHANGED <<fields, rows, temp>>

(* ----------------------------- behaviours ------------------------------ *)

\* the pop column of a table of n features: all null, all numbers, or
\* numbers and NaN in turn
PopColumns(n) ==
    {[i \in 1..n |-> None],
     [i \in 1..n |-> Num(i)],
     [i \in 1..n |-> IF i % 2 = 1 THEN Num(1) ELSE NaN]}

Init ==
    /\ fields = BaseFields
    /\ \E n \in 0..MaxRows :
         \E oid \in OidChoices(n), v \in PopColumns(n) :
            rows = [i \in 1..n |-> MkRow(oid[i], v[i])]
    /\ temp = NoTemp
    /\ last = NoCall
    /\ pc = "ready"

Next ==
    \/ SummarizeField
    \/ ExtractToPandasDf
    \/ CalculateNdvi
    \/ ZonalStatsToField
    \/ ReturnToCaller

Spec == Init /\ [][Next]_vars

\* the field summary alone, over longer tables and more values
MeanVals == {None, NaN, Num(1), Num(3), Num(5)}

InitMean ==
    /\ fields = BaseFields
    /\ \E n \in 0..MaxMeanRows :
         \E v \in [1..n -> MeanVals] :
            rows = [i \in 1..n |-> MkRow(i, v[i])]
    /\ temp = NoTemp
    /\ last = NoCall
    /\ pc = "ready"

NextMean ==
    \/ SummarizeField
    \/ ReturnToCaller

SpecMean == InitMean /\ [][NextMean]_vars

(* ----------------------------- properties ------------------------------ *)

Returned(op) == pc = "returned" /\ last.op = op

\* the output_field argument of the zonal_stats_to_field call that returned
OutField == last.arg[1]

ExistedBefore == OutField \in NameSet(last.pre.fields)

\* row i's value of field f before the call (null when the field was not there)
PreValue(i, f) ==
    IF f \in DOMAIN last.pre.rows[i] THEN last.pre.rows[i][f] ELSE None

\* row i's value of field f now (null when the field is not there)
CurValue(i, f) == IF f \in DOMAIN rows[i] THEN rows[i][f] ELSE None

\* the rows of this call's statistics table whose identifier is `oid`
Matches(oid) ==
    {j \in 1..Len(last.computed) : last.computed[j].OBJECTID_1 = oid}

\* every value of every field other than `f` is what it was before the call
OthersKept(f) ==
    /\ Len(rows) = Len(last.pre.rows)
    /\ \A i \in 1..Len(rows) :
          \A g \in DOMAIN last.pre.rows[i] \ {f} :
             rows[i][g] = last.pre.rows[i][g]

C2_TempGoneAfterReturn ==
    (Returned("zonal_stats_to_field") /\ ~last.raised) => ~temp.exists

\* C2 (amended): after zonal_stats_to_field returns True the temporary table
\* does not exist; after it returns False because reading the temporary
\* table or updating the features failed, the temporary table is still
\* there, holding the statistics of this call.
C2_TempGoneOnSuccessOnly ==
    (Returned("zonal_stats_to_field") /\ ~last.raised)
       => /\ last.flag => ~temp.exists
          /\ (last.raisedAt \cap {"ReadCursor", "UpdateCursor"} # {})
                => (~last.flag /\ temp.exists /\ temp.rows = last.computed)

C2_Witness ==
    /\ Returned("zonal_stats_to_field")
    /\ last.raisedAt = {"UpdateCursor"}
    /\ temp.exists
    /\ temp.rows # <<>>

\* C3: summarize_field(field) and extract_to_pandas_df([field]) with a field
\* that is not in the table's field list return (False, None), read no row
\* and raise nothing.
C3_MissingFieldFails ==
    ((Returned("summarize_field") \/ (Returned("extract_to_pandas_df") /\ last.given))
        /\ Len(last.arg) = 1
        /\ last.arg[1] \notin NameSet(last.pre.fields))
       => /\ ~last.raised
          /\ ~last.flag
          /\ last.value = None
          /\ last.rowsRead = 0

\* C4: in the four methods no failure of a toolkit call reaches the caller
\* as an exception, every such failure gives a False flag, and
\* calculate_ndvi returns (False, error) on a failure and (True, raster)
\* only when every step succeeded.
C4_FailuresBecomeFlags ==
    pc = "returned"
       => /\ ~last.raised
          /\ (last.raisedAt # {}) => ~last.flag
          /\ last.op = "calculate_ndvi"
                => /\ (last.raisedAt # {}) => last.value.kind = "error"
                   /\ last.flag => (last.raisedAt = {} /\ last.value.kind = "raster")

\* C5: summarize_field returns (False, None) when listing the fields raised,
\* and when the row read raised.
C5_FailedCheckFails ==
    (Returned("summarize_field")
        /\ last.raisedAt \cap {"ListFields", "SearchCursor"} # {})
       => (~last.flag /\ last.value = None)

\* whether `name` is a non-geometry, non-identifier field of the table
ValidName(name) ==
    \E i \in 1..Len(fields) :
       fields[i].name = name /\ fields[i].type \notin {"Geometry", "OID"}

\* C6: extract_to_pandas_df(fields) with one name that is no non-geometry,
\* non-identifier field returns (False, None) and opens no cursor, whatever
\* the other names are; with only valid names (and a cursor that works) it
\* returns (True, table) with the requested columns in the requested order
\* and every row of the feature table.
C6_AllOrNothing ==
    (Returned("extract_to_pandas_df") /\ last.given /\ ~last.raised)
       => /\ (\E j \in 1..Len(last.arg) : ~ValidName(last.arg[j]))
                => /\ ~last.flag
                   /\ last.value = None
                   /\ last.rowsRead = 0
                   /\ "SearchCursor" \notin SeqToSet(last.steps)
          /\ ((\A j \in 1..Len(last.arg) : ValidName(last.arg[j]))
                 /\ last.raisedAt = {})
                => /\ last.flag
                   /\ last.value.kind = "DataFrame"
                   /\ last.value.columns = last.arg
                   /\ Len(last.value.data) = Len(rows)
                   /\ \A i \in 1..Len(rows) :
                         /\ Len(last.value.data[i]) = Len(last.arg)
                         /\ \A j \in 1..Len(last.arg) :
                               last.value.data[i][j] = rows[i][last.arg[j]]

C6_Witness ==
    /\ Returned("extract_to_pandas_df")
    /\ last.given
    /\ last.fault = {}
    /\ Len(last.arg) = 2
    /\ ValidName(last.arg[1])
    /\ ~ValidName(last.arg[2])
    /\ Len(rows) > 0
    /\ ~last.flag

\* C7: when zonal_stats_to_field is called with a new output_field and the
\* zonal computation, the read of the temporary table or the update fails,
\* the call returns False, the failing step is the last one it ran, the
\* added field is still there, and the rows the update cursor got through
\* hold the values it wrote (the others are null).
C7_NoRollback ==
    (Returned("zonal_stats_to_field") /\ ~ExistedBefore
        /\ last.raisedAt \cap {"Zonal", "ReadCursor", "UpdateCursor"} # {})
       => /\ ~last.flag
          /\ ~last.raised
          /\ last.steps[Len(last.steps)] \in last.raisedAt
          /\ fields = Append(last.pre.fields,
                             [name |-> OutField, type |-> "Double"])
          /\ OthersKept(OutField)
          /\ \A i \in 1..Len(rows) :
                LET m == Matches(rows[i].OBJECTID.n)
                IN IF i <= last.updated /\ m # {}
                   THEN \A j \in m : rows[i][OutField] = last.computed[j].stat
                   ELSE rows[i][OutField] = None

C7_Witness ==
    /\ Returned("zonal_stats_to_field")
    /\ ~ExistedBefore
    /\ last.raisedAt = {"UpdateCursor"}
    /\ last.updated = 1
    /\ Len(rows) = 2
    /\ rows[1][OutField] # None
    /\ Matches(rows[2].OBJECTID.n) # {}
    /\ rows[2][OutField] = None

RECURSIVE SetSum(_, _)
\* the sum of col[i].n over the indices i of `idx`
SetSum(col, idx) ==
    IF idx = {} THEN 0
    ELSE LET i == CHOOSE k \in idx : TRUE
         IN col[i].n + SetSum(col, idx \ {i})

\* the values of the summarized field, row by row
SummarizedColumn == [i \in 1..Len(rows) |-> rows[i][last.arg[1]]]

\* C8: for an existing numeric field whose rows can be read,
\* summarize_field returns (True, m) with m the sum of the values that are
\* neither None nor NaN divided by their number (3.0 for 1, None, 3, NaN, 5),
\* and (False, None) when there is no such value.
C8_MeanOfValidValues ==
    (Returned("summarize_field")
        /\ (\E i \in 1..Len(fields) :
               fields[i].name = last.arg[1] /\ fields[i].type \in {"Double", "OID"})
        /\ "SearchCursor" \notin last.raisedAt)
       => LET col == SummarizedColumn
              valid == {i \in 1..Len(col) : col[i].kind = "num"}
          IN /\ valid # {} =>
                   /\ last.flag
                   /\ last.value.kind = "float"
                   /\ last.value.den = Cardinality(valid)
                   /\ last.value.n = SetSum(col, valid)
             /\ valid = {} => (~last.flag /\ last.value = None)
             /\ col = <<Num(1), None, Num(3), NaN, Num(5)>>
                   => last.value.n = 3 * last.value.den

C8_Witness ==
    /\ Returned("summarize_field")
    /\ last.arg = <<"pop">>
    /\ SummarizedColumn = <<Num(1), None, Num(3), NaN, Num(5)>>
    /\ last.flag
    /\ last.value = Float(9, 3)

\* C9: after zonal_stats_to_field returned True for a new output_field,
\* every feature with a row of the same identifier in the statistics table
\* holds that row's statistic in output_field, every other feature holds
\* null there, and no other field, identifier or feature changed.
C9_JoinByIdentifier ==
    (Returned("zonal_stats_to_field") /\ ~ExistedBefore /\ last.flag)
       => /\ fields = Append(last.pre.fields,
                             [name |-> OutField, type |-> "Double"])
          /\ OthersKept(OutField)
          /\ \A i \in 1..Len(rows) :
                LET m == Matches(rows[i].OBJECTID.n)
                IN /\ \A j \in m : rows[i][OutField] = last.computed[j].stat
                   /\ m = {} => rows[i][OutField] = None

C9_Witness ==
    /\ Returned("zonal_stats_to_field")
    /\ ~ExistedBefore
    /\ last.flag
    /\ Len(rows) = 2
    /\ rows[1].OBJECTID.n = 2
    /\ rows[1][OutField] = None
    /\ rows[2][OutField] = ZoneStat(last.raster, 3)

\* C10: whatever earlier calls left in the temporary table, the mapping a
\* zonal_stats_to_field call reads holds exactly the statistics computed in
\* this call, every value the call writes is one of them, and a temporary
\* table left behind holds them too.
C10_NoStaleRows ==
    Returned("zonal_stats_to_field")
       => /\ \A k \in DOMAIN last.zonal_results :
                \E j \in Matches(k) :
                   last.zonal_results[k] = last.computed[j].stat
          /\ ("UpdateCursor" \in SeqToSet(last.steps))
                => \A j \in 1..Len(last.computed) :
                      last.computed[j].OBJECTID_1 \in DOMAIN last.zonal_results
          /\ \A i \in 1..Len(rows) :
                CurValue(i, OutField) # PreValue(i, OutField)
                   => \E j \in Matches(rows[i].OBJECTID.n) :
                         CurValue(i, OutField) = last.computed[j].stat
          /\ (temp.exists /\ "Zonal" \in SeqToSet(last.steps))
                => temp.rows = last.computed

C10_Witness ==
    /\ Returned("zonal_stats_to_field")
    /\ last.pre.temp.exists
    /\ last.pre.temp.rows # <<>>
    /\ last.pre.temp.rows # last.computed
    /\ last.flag
    /\ \E i \in 1..Len(rows) : rows[i][OutField] # PreValue(i, OutField)

====
